---------------------------- MODULE Spec2Model ----------------------------
(***************************************************************************)
(* Model of face/middleware.py: registration of middlewares               *)
(* (face_middleware / check_middleware), resolution of a middleware chain  *)
(* (resolve_middleware_chain / get_middleware_chain) and one invocation of *)
(* the composed chain.                                                     *)
(*                                                                         *)
(* A function object is a record of what getargspec() reports about it:    *)
(*   args      the named parameters, in order                              *)
(*   ndefaults how many trailing parameters carry a default                *)
(*   varargs   TRUE iff it declares *args                                  *)
(*   keywords  TRUE iff it declares **kwargs                               *)
(*   callable  FALSE for a non-callable object                             *)
(* and of the attributes face_middleware sets on it:                       *)
(*   is_face_middleware, _face_provides                                    *)
(* (FALSE and the empty list on a function that was never decorated).      *)
(***************************************************************************)
EXTENDS Integers, Sequences, FiniteSets, TLC

\* Largest number of functions marked as middleware at one time.
MaxRegistered == 2
\* Largest number of middlewares in one chain (the terminal comes on top).
MaxChain == 2

INNER_NAME == "next_"

_BUILTIN_PROVIDES == <<INNER_NAME, "args_", "cmd_", "subcmds_",
                       "flags_", "posargs_", "post_posargs_",
                       "command_">>

\* Every name of the model, in the order Python's sorted() puts strings.
NameOrder == <<"args_", "cmd_", "command_", "flags_", "next", "next_",
               "posargs_", "post_posargs_", "print_time", "start_time",
               "subcmds_">>

Range(s) == {s[i] : i \in 1..Len(s)}

Rank(n) == CHOOSE i \in 1..Len(NameOrder) : NameOrder[i] = n

\* Python's sorted() on a collection of names: insertion into a sorted list.
RECURSIVE InsertSorted(_, _)
InsertSorted(n, s) ==
    IF s = <<>> THEN <<n>>
    ELSE IF Rank(n) <= Rank(Head(s)) THEN <<n>> \o s
    ELSE <<Head(s)>> \o InsertSorted(n, Tail(s))

RECURSIVE sorted(_)
sorted(S) ==
    IF S = {} THEN <<>>
    ELSE LET n == CHOOSE x \in S : TRUE
         IN  InsertSorted(n, sorted(S \ {n}))

-----------------------------------------------------------------------------
(* Errors.  exc is the Python exception class, msg the message template,   *)
(* names the list a NameError for unresolved arguments carries.            *)

NoError == [exc |-> "none", msg |-> "none", names |-> <<>>]

TypeError(m) == [exc |-> "TypeError", msg |-> m, names |-> <<>>]

\* A TypeError whose message quotes the name found in place of next_.
TypeErrorNot(m, n) == [exc |-> "TypeError", msg |-> m, names |-> <<n>>]

NameError(m, ns) == [exc |-> "NameError", msg |-> m, names |-> ns]

-----------------------------------------------------------------------------
(* Function objects offered to the decorator and to get_middleware_chain.  *)

Func(a, d, va, kw) ==
    [args |-> a, ndefaults |-> d, varargs |-> va, keywords |-> kw,
     callable |-> TRUE, is_face_middleware |-> FALSE, _face_provides |-> <<>>]

NotCallable ==
    [args |-> <<>>, ndefaults |-> 0, varargs |-> FALSE, keywords |-> FALSE,
     callable |-> FALSE, is_face_middleware |-> FALSE, _face_provides |-> <<>>]

\* Candidate middleware functions: well-formed ones and one of each defect.
MiddlewareFuncs ==
    { Func(<<"next_">>, 0, FALSE, FALSE),
      Func(<<"next_", "start_time">>, 0, FALSE, FALSE),
      Func(<<"next_", "print_time">>, 1, FALSE, FALSE),
      Func(<<>>, 0, FALSE, FALSE),
      Func(<<"next">>, 0, FALSE, FALSE),
      Func(<<"start_time", "next_">>, 0, FALSE, FALSE),
      Func(<<"next_">>, 0, TRUE, FALSE),
      Func(<<"next_", "start_time">>, 0, FALSE, TRUE),
      Func(<<>>, 0, TRUE, TRUE),
      NotCallable }

\* Candidate values of the decorator's provides= argument.
ProvidesChoices ==
    { <<>>, <<"start_time">>, <<"cmd_">>, <<"start_time", "cmd_">>,
      <<"next_">> }

\* Candidate command handler functions (the innermost of a chain).
HandlerFuncs ==
    { Func(<<>>, 0, FALSE, FALSE),
      Func(<<"start_time">>, 0, FALSE, FALSE),
      Func(<<"print_time">>, 1, FALSE, FALSE),
      Func(<<"start_time", "print_time">>, 0, FALSE, FALSE),
      Func(<<"cmd_", "next_">>, 0, FALSE, FALSE),
      Func(<<"cmd_">>, 0, TRUE, TRUE) }

\* Candidate preprovided collections (builtins and parsed flags).
PreprovidedChoices ==
    { {}, {"cmd_", "next_"}, {"cmd_", "print_time"} }

-----------------------------------------------------------------------------
(* sinter.get_arg_names and the required/optional split of a signature.    *)

get_arg_names(f) == f.args

\* get_arg_names(f, only_required=True): the parameters without a default.
UndefaultedArgs(f) == SubSeq(f.args, 1, Len(f.args) - f.ndefaults)

RequiredNames(f) == Range(UndefaultedArgs(f)) \ {INNER_NAME}

OptionalNames(f) == (Range(f.args) \ Range(UndefaultedArgs(f))) \ {INNER_NAME}

-----------------------------------------------------------------------------
(* check_middleware(func, provides): the first failed check decides.       *)

check_middleware_no_position(func, provides) ==
    IF ~func.callable THEN TypeError("expected middleware to be a function")
    ELSE IF get_arg_names(func) = <<>>
    THEN TypeError("must take at least one argument")
    ELSE IF INNER_NAME \notin Range(get_arg_names(func))
    THEN TypeErrorNot("must take argument next_ as the first parameter",
                      get_arg_names(func)[1])
    ELSE IF func.varargs THEN TypeError("may only take explicitly named arguments, not *")
    ELSE IF func.keywords THEN TypeError("may only take explicitly named arguments, not **")
    ELSE IF Range(_BUILTIN_PROVIDES) \cap Range(provides) # {}
    THEN TypeError("provides conflict with reserved face builtins")
    ELSE NoError

check_middleware_no_variadic(func, provides) ==
    IF ~func.callable THEN TypeError("expected middleware to be a function")
    ELSE IF get_arg_names(func) = <<>>
    THEN TypeError("must take at least one argument")
    ELSE IF get_arg_names(func)[1] # INNER_NAME
    THEN TypeErrorNot("must take argument next_ as the first parameter",
                      get_arg_names(func)[1])
    ELSE IF Range(_BUILTIN_PROVIDES) \cap Range(provides) # {}
    THEN TypeError("provides conflict with reserved face builtins")
    ELSE NoError

check_middleware_first_provide(func, provides) ==
    IF ~func.callable THEN TypeError("expected middleware to be a function")
    ELSE IF get_arg_names(func) = <<>>
    THEN TypeError("must take at least one argument")
    ELSE IF get_arg_names(func)[1] # INNER_NAME
    THEN TypeErrorNot("must take argument next_ as the first parameter",
                      get_arg_names(func)[1])
    ELSE IF func.varargs THEN TypeError("may only take explicitly named arguments, not *")
    ELSE IF func.keywords THEN TypeError("may only take explicitly named arguments, not **")
    ELSE IF provides # <<>> /\ provides[1] \in Range(_BUILTIN_PROVIDES)
    THEN TypeError("provides conflict with reserved face builtins")
    ELSE NoError

check_middleware(func, provides) ==
    IF ~func.callable THEN TypeError("expected middleware to be a function")
    ELSE IF get_arg_names(func) = <<>>
    THEN TypeError("must take at least one argument")
    ELSE IF get_arg_names(func)[1] # INNER_NAME
    THEN TypeErrorNot("must take argument next_ as the first parameter",
                      get_arg_names(func)[1])
    ELSE IF func.varargs THEN TypeError("may only take explicitly named arguments, not *")
    ELSE IF func.keywords THEN TypeError("may only take explicitly named arguments, not **")
    ELSE IF Range(_BUILTIN_PROVIDES) \cap Range(provides) # {}
    THEN TypeError("provides conflict with reserved face builtins")
    ELSE NoError

-----------------------------------------------------------------------------
(* face_middleware.decorate_face_middleware(func): check, then mark.       *)
(* The result is the error raised and the function objects marked.         *)

Marked(func, provides) ==
    [func EXCEPT !.is_face_middleware = TRUE, !._face_provides = provides]

decorate_face_middleware_unchecked(func, provides) ==
    [error |-> NoError, marked |-> {Marked(func, provides)}]

decorate_face_middleware(func, provides) ==
    IF check_middleware(func, provides) # NoError
    THEN [error |-> check_middleware(func, provides), marked |-> {}]
    ELSE [error |-> NoError, marked |-> {Marked(func, provides)}]

is_middleware(target) == target.callable /\ target.is_face_middleware

-----------------------------------------------------------------------------
(* sinter.make_chain: one left-to-right pass over the middlewares and then *)
(* the innermost function.  acc collects, per member, the names available  *)
(* at its position and the names it is bound to, and the names required    *)
(* but not available.                                                      *)

RECURSIVE ResolvePass(_, _, _, _, _)
ResolvePass(members, provides, i, available, acc) ==
    IF i > Len(members) THEN acc
    ELSE LET p == members[i]
             missing == RequiredNames(p) \ available
             subset == (RequiredNames(p) \cup OptionalNames(p)) \cap available
             next_available == IF i <= Len(provides)
                               THEN available \cup Range(provides[i])
                               ELSE available
         IN  ResolvePass(members, provides, i + 1, next_available,
                 [unresolved |-> acc.unresolved \cup missing,
                  argSubset |-> Append(acc.argSubset, subset),
                  avail |-> Append(acc.avail, available)])

make_chain(funcs, provides, final_func, preprovided, inner_name) ==
    LET pass == ResolvePass(Append(funcs, final_func), provides, 1,
                            preprovided,
                            [unresolved |-> {}, argSubset |-> <<>>,
                             avail |-> <<>>])
        chain == [funcs |-> funcs, final_func |-> final_func,
                  inner_name |-> inner_name,
                  argSubset |-> pass.argSubset, avail |-> pass.avail]
        chain_args == UNION Range(pass.argSubset) \cap preprovided
    IN  <<chain, chain_args, pass.unresolved>>

-----------------------------------------------------------------------------
(* resolve_middleware_chain(middlewares, innermost, preprovided)           *)

Reverse(s) == [i \in 1..Len(s) |-> s[Len(s) + 1 - i]]

resolve_middleware_chain_keeps_inner(middlewares, innermost, preprovided) ==
    LET mw_avail == preprovided
        mw_provides == [i \in 1..Len(middlewares) |->
                           middlewares[i]._face_provides]
    IN  make_chain(middlewares, mw_provides, innermost, mw_avail, INNER_NAME)

resolve_middleware_chain_reversed(middlewares, innermost, preprovided) ==
    LET mw_avail == preprovided \ {INNER_NAME}
        mw_provides == [i \in 1..Len(middlewares) |->
                           Reverse(middlewares)[i]._face_provides]
    IN  make_chain(Reverse(middlewares), mw_provides, innermost, mw_avail,
                   INNER_NAME)

resolve_middleware_chain_no_provides(middlewares, innermost, preprovided) ==
    LET mw_avail == preprovided \ {INNER_NAME}
        mw_provides == [i \in 1..Len(middlewares) |-> <<>>]
    IN  make_chain(middlewares, mw_provides, innermost, mw_avail, INNER_NAME)

resolve_middleware_chain(middlewares, innermost, preprovided) ==
    LET mw_avail == preprovided \ {INNER_NAME}
        mw_provides == [i \in 1..Len(middlewares) |->
                           middlewares[i]._face_provides]
    IN  make_chain(middlewares, mw_provides, innermost, mw_avail, INNER_NAME)

-----------------------------------------------------------------------------
(* get_middleware_chain(middlewares, innermost, preprovided): the error    *)
(* raised and the chain returned (None when it raises).                    *)

None == [none |-> TRUE]

get_middleware_chain_no_raise(middlewares, innermost, preprovided) ==
    IF INNER_NAME \in Range(get_arg_names(innermost))
    THEN [error |-> NameError("reserved for middleware use only", <<>>),
          mw_chain |-> None]
    ELSE LET res == resolve_middleware_chain(middlewares, innermost,
                                             preprovided)
         IN  [error |-> NoError, mw_chain |-> res[1]]

get_middleware_chain(middlewares, innermost, preprovided) ==
    IF INNER_NAME \in Range(get_arg_names(innermost))
    THEN [error |-> NameError("reserved for middleware use only", <<>>),
          mw_chain |-> None]
    ELSE LET res == resolve_middleware_chain(middlewares, innermost,
                                             preprovided)
             mw_chain == res[1]
             mw_unres == res[3]
         IN  IF mw_unres # {}
             THEN [error |-> NameError("unresolved request middleware arguments",
                                       sorted(mw_unres)),
                   mw_chain |-> None]
             ELSE [error |-> NoError, mw_chain |-> mw_chain]

-----------------------------------------------------------------------------
(* State.                                                                  *)
(*   registered   the function objects marked by face_middleware           *)
(*   error        the exception raised, or NoError                         *)
(*   middlewares, innermost, preprovided                                   *)
(*                the arguments of the get_middleware_chain call           *)
(*   mw_chain     what that call returned (None if it raised or was not    *)
(*                made yet)                                                *)
(*   pc           "idle" while functions are decorated, "built" once       *)
(*                get_middleware_chain has returned, "running" while       *)
(*                mw_chain is being invoked, "done" when it has returned,  *)
(*                "raised" when an exception left the program              *)
(*   depth, direction                                                      *)
(*                the position of the chain member in control, going       *)
(*                inward ("down") or returning outward ("up")              *)
(*   stopped_at   the position of the middleware that returned without     *)
(*                invoking next_ in this invocation, 0 if none did         *)
(*   events       the side effects of the bodies, in order                 *)
(*   ret          the value being returned                                 *)

VARIABLES registered, error, middlewares, innermost, preprovided, mw_chain,
          pc, depth, direction, stopped_at, events, ret

vars == <<registered, error, middlewares, innermost, preprovided, mw_chain,
          pc, depth, direction, stopped_at, events, ret>>

call_vars == <<middlewares, innermost, preprovided, mw_chain>>

run_vars == <<depth, direction, stopped_at, events, ret>>

NoValue == [by |-> "nobody"]

Init ==
    /\ registered = {}
    /\ error = NoError
    /\ middlewares = <<>>
    /\ innermost = NotCallable
    /\ preprovided = {}
    /\ mw_chain = None
    /\ pc = "idle"
    /\ depth = 0
    /\ direction = "down"
    /\ stopped_at = 0
    /\ events = <<>>
    /\ ret = NoValue

\* @face_middleware(provides=provides) applied to func.
Register(func, provides) ==
    LET done == decorate_face_middleware(func, provides)
    IN  /\ pc = "idle"
        /\ Cardinality(registered \cup done.marked) <= MaxRegistered
        /\ registered' = registered \cup done.marked
        /\ error' = done.error
        /\ pc' = IF done.error = NoError THEN "idle" ELSE "raised"
        /\ UNCHANGED <<call_vars, run_vars>>

\* The lists of at most n elements of S.
RECURSIVE SeqsUpTo(_, _)
SeqsUpTo(S, n) ==
    IF n = 0 THEN {<<>>}
    ELSE SeqsUpTo(S, n - 1) \cup
         {Append(s, x) : s \in {t \in SeqsUpTo(S, n - 1) : Len(t) = n - 1}, x \in S}

\* Command.prepare(): get_middleware_chain on the middlewares of a command.
GetMiddlewareChain(mws, func, pre) ==
    LET got == get_middleware_chain(mws, func, pre)
    IN  /\ pc = "idle"
        /\ \A i \in 1..Len(mws) : is_middleware(mws[i])
        /\ middlewares' = mws
        /\ innermost' = func
        /\ preprovided' = pre
        /\ mw_chain' = got.mw_chain
        /\ error' = got.error
        /\ pc' = IF got.error = NoError THEN "built" ELSE "raised"
        /\ UNCHANGED <<registered, run_vars>>

Event(kind, func, kwargs) == [kind |-> kind, func |-> func, kwargs |-> kwargs]

\* mw_chain(**injectables): control enters the outermost member.
Invoke ==
    /\ pc \in {"built", "done"}
    /\ pc' = "running"
    /\ depth' = 1
    /\ direction' = "down"
    /\ stopped_at' = 0
    /\ events' = <<>>
    /\ ret' = NoValue
    /\ UNCHANGED <<registered, error, call_vars>>

\* A middleware body runs up to its next_() call and makes the call.
MiddlewareCallsNext ==
    /\ pc = "running"
    /\ direction = "down"
    /\ depth <= Len(mw_chain.funcs)
    /\ events' = Append(events, Event("pre", mw_chain.funcs[depth],
                                      mw_chain.argSubset[depth]))
    /\ depth' = depth + 1
    /\ UNCHANGED <<registered, error, call_vars, pc, direction, stopped_at, ret>>

\* A middleware body runs and decides to return without calling next_().
MiddlewareSkipsNext ==
    /\ pc = "running"
    /\ direction = "down"
    /\ depth <= Len(mw_chain.funcs)
    /\ events' = Append(events, Event("pre", mw_chain.funcs[depth],
                                      mw_chain.argSubset[depth]))
    /\ direction' = "up"
    /\ stopped_at' = depth
    /\ ret' = [by |-> mw_chain.funcs[depth]]
    /\ UNCHANGED <<registered, error, call_vars, pc, depth>>

\* The command handler runs and returns.
Terminal ==
    /\ pc = "running"
    /\ direction = "down"
    /\ depth = Len(mw_chain.funcs) + 1
    /\ events' = Append(events, Event("terminal", mw_chain.final_func,
                                      mw_chain.argSubset[depth]))
    /\ ret' = [by |-> mw_chain.final_func]
    /\ direction' = "up"
    /\ depth' = depth - 1
    /\ UNCHANGED <<registered, error, call_vars, pc, stopped_at>>

\* A middleware body runs from where next_() returned (or was skipped) to
\* its own return, handing on the value it holds (return ret).
MiddlewarePost ==
    /\ pc = "running"
    /\ direction = "up"
    /\ depth >= 1
    /\ events' = Append(events, Event("post", mw_chain.funcs[depth],
                                      mw_chain.argSubset[depth]))
    /\ depth' = depth - 1
    /\ UNCHANGED <<registered, error, call_vars, pc, direction, stopped_at, ret>>

\* The outermost member has returned to the caller of mw_chain.
Return ==
    /\ pc = "running"
    /\ direction = "up"
    /\ depth = 0
    /\ pc' = "done"
    /\ UNCHANGED <<registered, error, call_vars, run_vars>>

Next ==
    \/ \E func \in MiddlewareFuncs, provides \in ProvidesChoices :
          Register(func, provides)
    \/ \E mws \in SeqsUpTo(registered, MaxChain), func \in HandlerFuncs,
          pre \in PreprovidedChoices :
          GetMiddlewareChain(mws, func, pre)
    \/ Invoke
    \/ MiddlewareCallsNext
    \/ MiddlewareSkipsNext
    \/ Terminal
    \/ MiddlewarePost
    \/ Return

Spec == Init /\ [][Next]_vars

-----------------------------------------------------------------------------
(* Closed forms over the arguments of the get_middleware_chain call.       *)

\* TRUE once get_middleware_chain has been called.
Called == innermost # NotCallable

NumMembers == Len(middlewares) + 1

Member(i) == IF i <= Len(middlewares) THEN middlewares[i] ELSE innermost

DeclaredNames(f) == RequiredNames(f) \cup OptionalNames(f)

AvailableSet(i) ==
    (preprovided \ {INNER_NAME}) \cup
    UNION {Range(middlewares[j]._face_provides) : j \in 1..(i - 1)}

UnresolvedUnion ==
    UNION {RequiredNames(Member(i)) \ AvailableSet(i) : i \in 1..NumMembers}

UnresolvedMsg == "unresolved request middleware arguments"

StrictlySorted(s) ==
    \A i \in 1..Len(s) : \A j \in 1..Len(s) : i < j => Rank(s[i]) < Rank(s[j])

\* C1: resolution collects the unresolved names of every member, the
\* innermost included, not only the first one; it succeeds iff there is none,
\* and otherwise raises with exactly these names, sorted and without
\* duplicates, and returns no chain.  (Chains whose innermost declares next_
\* are rejected before resolution and are not chains of valid members.)
C1_AllUnresolvedCollected ==
    (Called /\ INNER_NAME \notin Range(get_arg_names(innermost))) =>
        /\ resolve_middleware_chain(middlewares, innermost, preprovided)[3]
              = UnresolvedUnion
        /\ (UnresolvedUnion = {}) <=> (error = NoError /\ mw_chain # None)
        /\ UnresolvedUnion # {} =>
              /\ pc = "raised"
              /\ error.exc = "NameError"
              /\ error.msg = UnresolvedMsg
              /\ Range(error.names) = UnresolvedUnion
              /\ Len(error.names) = Cardinality(UnresolvedUnion)
              /\ StrictlySorted(error.names)
              /\ mw_chain = None

C1_Witness ==
    /\ pc = "raised"
    /\ error.msg = UnresolvedMsg
    /\ Len(error.names) = 2
    /\ Len(middlewares) >= 1
    /\ RequiredNames(middlewares[1]) \ AvailableSet(1) # {}
    /\ RequiredNames(innermost) \ AvailableSet(NumMembers)
          \notin {{}, RequiredNames(middlewares[1]) \ AvailableSet(1)}

\* The names each event of the invocation handed to its member.
KwargsDeclared ==
    \A k \in 1..Len(events) : events[k].kwargs \subseteq DeclaredNames(events[k].func)

\* C2: the names available at position i are the preprovided ones without
\* next_ plus what the middlewares before i provide, so they only grow with
\* i; each member is bound to exactly the declared names (required or
\* optional) that are available at its position.
C2_AvailabilityAndSubsets ==
    Called =>
        LET chain == resolve_middleware_chain(middlewares, innermost, preprovided)[1]
        IN  /\ mw_chain # None => mw_chain = chain
            /\ Len(chain.avail) = NumMembers
            /\ Len(chain.argSubset) = NumMembers
            /\ \A i \in 1..NumMembers :
                  /\ chain.avail[i] = AvailableSet(i)
                  /\ INNER_NAME \notin chain.avail[i]
                  /\ i < NumMembers => chain.avail[i] \subseteq chain.avail[i + 1]
                  /\ chain.argSubset[i] = DeclaredNames(Member(i)) \cap AvailableSet(i)
            /\ KwargsDeclared

C2_Witness ==
    /\ pc = "done"
    /\ INNER_NAME \in preprovided
    /\ Len(middlewares) = 2
    /\ middlewares[1]._face_provides # <<>>
    /\ mw_chain.avail[1] # mw_chain.avail[2]
    /\ \E i \in 1..NumMembers : OptionalNames(Member(i)) \ mw_chain.argSubset[i] # {}
    /\ \E i \in 1..NumMembers : mw_chain.argSubset[i] # {}

-----------------------------------------------------------------------------
(* Order of the side effects of one invocation.                            *)

EventTags == [k \in 1..Len(events) |-> <<events[k].kind, events[k].func>>]

PreTags(k) == [i \in 1..k |-> <<"pre", middlewares[i]>>]

PostTags(k) == [i \in 1..k |-> <<"post", middlewares[k + 1 - i]>>]

IsPrefix(s, t) == Len(s) <= Len(t) /\ s = SubSeq(t, 1, Len(s))

\* C3: when every middleware invokes next_, the middlewares are entered in
\* the order they were added, the handler runs once after all of them, and
\* they resume in the reverse order.
C3_NestedOrder ==
    (pc \in {"running", "done"} /\ stopped_at = 0) =>
        LET expected == PreTags(Len(middlewares)) \o <<<<"terminal", innermost>>>>
                          \o PostTags(Len(middlewares))
        IN  /\ IsPrefix(EventTags, expected)
            /\ pc = "done" => (EventTags = expected /\ ret = [by |-> innermost])

C3_Witness ==
    /\ pc = "done"
    /\ stopped_at = 0
    /\ Len(middlewares) = 2
    /\ middlewares[1] # middlewares[2]
    /\ Len(events) = 5

\* C4: when the middleware at position k returns without invoking next_, no
\* member inward of k runs, the middlewares up to k run their code after the
\* continuation in reverse order, and the result is the value returned by
\* the middleware at k.
C4_ShortCircuit ==
    (pc \in {"running", "done"} /\ stopped_at > 0) =>
        LET expected == PreTags(stopped_at) \o PostTags(stopped_at)
        IN  /\ stopped_at <= Len(middlewares)
            /\ IsPrefix(EventTags, expected)
            /\ \A k \in 1..Len(events) : events[k].kind # "terminal"
            /\ ret = [by |-> middlewares[stopped_at]]
            /\ pc = "done" => EventTags = expected

C4_Witness ==
    /\ pc = "done"
    /\ stopped_at = 2
    /\ Len(middlewares) = 2
    /\ middlewares[1] # middlewares[2]
    /\ Len(events) = 4

-----------------------------------------------------------------------------
-----------------------------------------------------------------------------
(* Weak and strong dependencies.                                           *)

\* The first parameter of f that carries a default.
FirstDefaulted(f) == f.args[Len(f.args) - f.ndefaults + 1]

\* f with the default of that parameter removed.
WithoutDefault(f) == [f EXCEPT !.ndefaults = @ - 1]

AllProvided == UNION {Range(middlewares[j]._face_provides) : j \in 1..Len(middlewares)}

\* C6: a middleware asking with a default for a name X that nobody provides
\* resolves and is not bound to X, while the same chain with that default
\* removed raises with unresolved names [X]; and a handler requiring
\* start_time resolves behind a middleware providing it and raises with
\* [start_time] once that middleware is removed.
C6_WeakVersusStrong ==
    /\ pc = "built" =>
          \A i \in 1..Len(middlewares) :
             LET f == middlewares[i]
                 X == FirstDefaulted(f)
                 strong == get_middleware_chain(
                               [middlewares EXCEPT ![i] = WithoutDefault(f)],
                               innermost, preprovided)
             IN  (f.ndefaults > 0 /\ X \notin preprovided \cup AllProvided) =>
                    /\ X \in OptionalNames(f)
                    /\ X \notin mw_chain.argSubset[i]
                    /\ strong.mw_chain = None
                    /\ strong.error.exc = "NameError"
                    /\ strong.error.names = <<X>>
    /\ ( /\ Called
         /\ Len(middlewares) = 1
         /\ RequiredNames(middlewares[1]) = {}
         /\ middlewares[1]._face_provides = <<"start_time">>
         /\ get_arg_names(innermost) = <<"start_time">>
         /\ innermost.ndefaults = 0
         /\ "start_time" \notin preprovided ) =>
            /\ pc # "raised"
            /\ mw_chain # None
            /\ get_middleware_chain(<<>>, innermost, preprovided).mw_chain = None
            /\ get_middleware_chain(<<>>, innermost, preprovided).error.names
                  = <<"start_time">>

C6_Witness ==
    /\ pc = "built"
    /\ Len(middlewares) = 2
    /\ middlewares[2].ndefaults = 1
    /\ FirstDefaulted(middlewares[2]) = "print_time"
    /\ "print_time" \notin preprovided
    /\ middlewares[1]._face_provides = <<"start_time">>
    /\ get_arg_names(innermost) = <<"start_time">>

-----------------------------------------------------------------------------
(* Registration checks, stated on the steps that decorate a function.      *)

Variadic(f) == f.varargs \/ f.keywords

Reserved == Range(_BUILTIN_PROVIDES)

NoArgsMsg == "must take at least one argument"

FirstArgMsg == "must take argument next_ as the first parameter"

ConflictMsg == "provides conflict with reserved face builtins"

\* The step raised a TypeError and marked nothing.
RaisesTypeError ==
    /\ pc' = "raised"
    /\ error'.exc = "TypeError"
    /\ registered' = registered

\* Passes every check of the signature that check_middleware makes.
SignatureOK(f) ==
    /\ f.callable
    /\ get_arg_names(f) # <<>>
    /\ get_arg_names(f)[1] = INNER_NAME
    /\ ~Variadic(f)

\* C7 as stated: no chain is ever built whose middleware or whose handler
\* declares a catch-all parameter.
C7_NoVariadicMember ==
    /\ \A f \in registered : ~Variadic(f)
    /\ mw_chain # None =>
          \A i \in 1..NumMembers : ~Variadic(Member(i))

\* C7 amended: decorating a function that declares *args or **kwargs raises
\* a TypeError and marks nothing, so no marked function and no middleware of
\* a built chain declares a catch-all parameter (the handler is not covered).
C7_VariadicMiddlewareRejected ==
    [][ /\ pc = "idle" =>
             \A f \in MiddlewareFuncs, p \in ProvidesChoices :
                (Register(f, p) /\ Variadic(f)) => RaisesTypeError
        /\ \A f \in registered' : ~Variadic(f)
        /\ mw_chain' # None =>
              \A i \in 1..Len(mw_chain'.funcs) : ~Variadic(mw_chain'.funcs[i])
      ]_vars

C7_Witness ==
    /\ pc = "raised"
    /\ error.msg = "may only take explicitly named arguments, not **"
    /\ registered # {}

\* C9: decorating a function whose first named parameter is not next_ (no
\* parameter at all, a misnamed one, or next_ in a later position) raises a
\* TypeError about the signature and marks nothing; a function whose first
\* parameter is next_ does not fail this check.
C9_FirstParameterIsNext ==
    [][ /\ pc = "idle" =>
             \A f \in MiddlewareFuncs, p \in ProvidesChoices :
                (Register(f, p) /\ f.callable) =>
                   IF get_arg_names(f) = <<>> \/ get_arg_names(f)[1] # INNER_NAME
                   THEN /\ RaisesTypeError
                        /\ error'.msg \in {NoArgsMsg, FirstArgMsg}
                   ELSE error'.msg \notin {NoArgsMsg, FirstArgMsg}
        /\ \A f \in registered' :
              get_arg_names(f) # <<>> /\ get_arg_names(f)[1] = INNER_NAME
      ]_vars

C9_Witness ==
    /\ pc = "raised"
    /\ error.msg = FirstArgMsg
    /\ error.names = <<"start_time">>

\* C10 as stated: decorating with a reserved name among provides always
\* raises the name-conflict error.
C10_AlwaysConflictError ==
    [][ pc = "idle" =>
           \A f \in MiddlewareFuncs, p \in ProvidesChoices :
              (Register(f, p) /\ Range(p) \cap Reserved # {}) =>
                 (RaisesTypeError /\ error'.msg = ConflictMsg)
      ]_vars

\* C10 amended: decorating with a reserved name among provides always raises
\* a TypeError and marks nothing; the error is the name-conflict one when the
\* signature passes the checks made before it, and the signature error
\* otherwise.  No marked function provides a reserved name.
C10_ReservedProvidesRejected ==
    [][ /\ pc = "idle" =>
             \A f \in MiddlewareFuncs, p \in ProvidesChoices :
                (Register(f, p) /\ Range(p) \cap Reserved # {}) =>
                   /\ RaisesTypeError
                   /\ SignatureOK(f) <=> error'.msg = ConflictMsg
        /\ \A f \in registered' : Range(f._face_provides) \cap Reserved = {}
      ]_vars

C10_Witness ==
    /\ pc = "raised"
    /\ error.msg = ConflictMsg
    /\ registered # {}

-----------------------------------------------------------------------------
(* Which flags a chain needs (the Weak Dependencies note).                 *)

\* The names the chain depends on strongly: every parameter of the handler,
\* defaulted or not, and the parameters the middlewares take without default.
RECURSIVE DepNames(_, _, _)
DepNames(mws, i, acc) ==
    IF i > Len(mws) THEN acc
    ELSE DepNames(mws, i + 1, acc \cup RequiredNames(mws[i]))

is_needed_required_only(mws, func, n) ==
    n \in DepNames(mws, 1, RequiredNames(func))

is_needed(mws, func, n) ==
    n \in DepNames(mws, 1, Range(get_arg_names(func)) \ {INNER_NAME})

FlagNames == {"print_time", "start_time"}

=============================================================================
